---- MODULE Spec2Model ----
(***************************************************************************)
(* Nano-Banana MCP server (src/src/index.ts): credential resolution, the   *)
(* six tool handlers, the shared response builder and the "last image"     *)
(* session state, modelled as a state machine.                             *)
(*                                                                         *)
(* Every tool handler is one action.  The outcomes of the I/O a handler    *)
(* performs (the provider's answer, a failing mkdir / writeFile /          *)
(* readFile) are inputs of the action, drawn with \E.  The file system is  *)
(* shared with the outside world, which may create, replace and delete     *)
(* files between two invocations.                                          *)
(***************************************************************************)
EXTENDS Integers, Sequences, FiniteSets, TLC

\* ------------------------------------------------------------------ bounds
\* longest part list in a provider candidate
MaxParts == 2
\* longest referenceImages list
MaxRefs == 2
\* image files the process writes in one run (caps the file name counter)
MaxImages == 2

\* --------------------------------------------------------------- constants
DEFAULT_MODEL == "gemini-2.5-flash-image"
PRO_MODEL == "gemini-3-pro-image-preview"
SUPPORTED_MODELS == <<DEFAULT_MODEL, PRO_MODEL>>
MAX_IMAGE_SIZE_BYTES == 20 * 1024 * 1024
ALLOWED_IMAGE_EXTENSIONS == <<".jpg", ".jpeg", ".png", ".webp", ".gif">>

\* JavaScript's undefined / null, for string-typed and object-typed places
Undefined == "<undefined>"
Null == [null |-> TRUE]

Range(s) == {s[i] : i \in DOMAIN s}

\* JavaScript truthiness of an optional string
Truthy(s) == s # Undefined /\ s # ""

\* ------------------------------------------------------------------ errors
\* McpError(code, message): msg is the fixed text the code puts in front,
\* cause the interpolated message of the failure it wraps ("" when none).
NoError == [code |-> "", msg |-> "", cause |-> ""]
McpError(code, msg, cause) == [code |-> code, msg |-> msg, cause |-> cause]
\* a failure that is not an McpError (an fs or provider exception)
RawError(cause) == [code |-> "raw", msg |-> "", cause |-> cause]

NotConfiguredError ==
    McpError("InvalidRequest", "Gemini API token not configured. Use configure_gemini_token first.", "")
NoPreviousImageError ==
    McpError("InvalidRequest", "No previous image found. Please generate or edit an image first.", "")
LastImageNotFoundError ==
    McpError("InvalidRequest", "Last image file not found", "")

\* ------------------------------------------------------- paths and files
\* A path is its directory, the file name's prefix and serial part, and the
\* extension as written (path.extname).
Path(dir, prefix, id, ext) == [dir |-> dir, prefix |-> prefix, id |-> id, ext |-> ext]
NoPath == Path("", "", 0, "")

\* Paths a caller passes to edit_image: a valid image with an upper-case
\* extension, an image over the size cap, a file with an extension outside
\* the allow-list, and a path where there is no file.
PhotoPath == Path("user", "photo", 0, ".PNG")
StylePath == Path("user", "style", 0, ".jpg")
LogoPath == Path("user", "logo", 0, ".svg")
GonePath == Path("user", "gone", 0, ".gif")
UserPaths == {PhotoPath, StylePath, LogoPath, GonePath}

\* getImagesDirectory(): one fixed directory for the whole run
ImagesDir == "generated_imgs"
Prefixes == {"generated", "edited"}

\* saveImage's file name `${prefix}-${timestamp}-${randomId}.png`.  The
\* (timestamp, randomId) pair is taken to be unused so far: serial is the
\* number of files the process wrote before this one, plus one.
FileName(imagesDir, prefix, serial) == Path(imagesDir, prefix, serial, ".png")

GenPaths == { FileName(ImagesDir, pre, n) : pre \in Prefixes, n \in 1..MaxImages }
AllPaths == UserPaths \cup GenPaths

\* String.prototype.toLowerCase on the extensions that occur (the others
\* are in lower case already)
ToLowerCase(s) ==
    CASE s = ".PNG" -> ".png"
      [] s = ".JPG" -> ".jpg"
      [] s = ".Jpeg" -> ".jpeg"
      [] s = ".WebP" -> ".webp"
      [] s = ".GIF" -> ".gif"
      [] s = ".SVG" -> ".svg"
      [] s = ".BMP" -> ".bmp"
      [] OTHER -> s

\* A file's content: which bytes (an identifier) and how many.
Blob(bytes, size) == [bytes |-> bytes, size |-> size]
NoFile == Blob(0, 0 - 1)


\* The caller's files as the run finds them.
UserFiles ==
    [p \in UserPaths |->
        CASE p = PhotoPath -> Blob(1, 3)
          [] p = StylePath -> Blob(2, MAX_IMAGE_SIZE_BYTES + 1)
          [] p = LogoPath -> Blob(3, 5)
          [] OTHER -> NoFile]

\* Buffer.toString("base64") and Buffer.from(s, "base64"): the base64 text
\* of n bytes is 4 * ceil(n / 3) characters long, so it is the empty
\* (falsy) string exactly for the empty buffer.
Base64(b64, chars, pad) == [b64 |-> b64, chars |-> chars, pad |-> pad]
ToBase64(blob) ==
    Base64(blob.bytes, 4 * ((blob.size + 2) \div 3), (3 - (blob.size % 3)) % 3)
FromBase64(data) ==
    Blob(data.b64, 3 * (data.chars \div 4) - data.pad)
EmptyString == Base64(0, 0, 0)
TruthyData(data) == data.chars > 0

\* ---------------------------------------------------------- content parts
\* A part of a request or of a provider response: text and/or inlineData.
Part(text, data, mimeType) == [text |-> text, data |-> data, mimeType |-> mimeType]
TextPart(text) == Part(text, EmptyString, "")
ImagePart(data, mimeType) == Part(<<>>, data, mimeType)

\* The transcript of a tool call: its arguments, the McpError it throws
\* (NoError when it returns a result), the requests it sent to the provider
\* and the responses it received, the image items of the result's content
\* and the pieces of the result's text item.
Args(imagePath, referenceImages, model) ==
    [imagePath |-> imagePath, referenceImages |-> referenceImages, model |-> model,
     apiKey |-> Undefined]
NoArgs == Args(NoPath, <<>>, Undefined)
\* the arguments of configure_gemini_token
ConfigureArgs(apiKey) == [NoArgs EXCEPT !.apiKey = apiKey]
Text(headline, description, warnings, saved, note, path, fileSize) ==
    [headline |-> headline, description |-> description, warnings |-> warnings,
     saved |-> saved, note |-> note, path |-> path, fileSize |-> fileSize]
NoText == Text("", <<>>, <<>>, <<>>, "", NoPath, 0)
Result(tool, args, error, requests, responses, content, text) ==
    [tool |-> tool, args |-> args, error |-> error, requests |-> requests,
     responses |-> responses, content |-> content, text |-> text]
NoResult == Result("", NoArgs, NoError, <<>>, <<>>, <<>>, NoText)

\* ------------------------------------------------------------ credentials
Tokens == {"k1", "k2"}
NotAString == "<not a string>"

\* process.env.GEMINI_API_KEY
EnvValues == {Undefined, ""} \cup Tokens

\* ~/.nano-banana-config.json: absent, not JSON, JSON that is no object, or
\* an object with or without geminiApiKey and with or without other fields.
ConfigFile(kind, geminiApiKey, extra) ==
    [kind |-> kind, geminiApiKey |-> geminiApiKey, extra |-> extra]
NoConfigFile == ConfigFile("absent", Undefined, FALSE)
ConfigFiles ==
    { NoConfigFile, ConfigFile("garbage", Undefined, FALSE), ConfigFile("nonobject", Undefined, FALSE) }
    \cup { ConfigFile("object", k, x) : k \in {Undefined, NotAString, ""} \cup Tokens, x \in BOOLEAN }

Config(geminiApiKey) == [geminiApiKey |-> geminiApiKey]
GoogleGenAI(apiKey) == [apiKey |-> apiKey]

\* ConfigSchema = z.object({ geminiApiKey: z.string().min(1) }): TRUE when
\* parse succeeds on an object whose geminiApiKey field is the given value.
\* z.object strips fields it does not know; it does not reject them.
ConfigSchemaAccepts(geminiApiKey) ==
    /\ geminiApiKey # Undefined
    /\ geminiApiKey # NotAString
    /\ geminiApiKey # ""

\* the message of the first issue of the ZodError ConfigSchema.parse throws
ConfigSchemaIssue(geminiApiKey) ==
    CASE geminiApiKey = Undefined -> "Required"
      [] geminiApiKey = NotAString -> "Expected string, received number"
      [] OTHER -> "Gemini API key is required"

\* JSON.parse followed by ConfigSchema.parse on the config file's text
ConfigFileParses(file) ==
    /\ file.kind = "object"
    /\ ConfigSchemaAccepts(file.geminiApiKey)

\* loadConfig(): the (config, genAI, configSource) it leaves behind
Credential(config, genAI, configSource) ==
    [config |-> config, genAI |-> genAI, configSource |-> configSource]
\* Mutation: the config file is given priority over the environment.
LoadConfigFileFirst(envApiKey, file) ==
    IF ConfigFileParses(file)
    THEN Credential(Config(file.geminiApiKey), GoogleGenAI(file.geminiApiKey), "config_file")
    ELSE IF Truthy(envApiKey) /\ ConfigSchemaAccepts(envApiKey)
         THEN Credential(Config(envApiKey), GoogleGenAI(envApiKey), "environment")
         ELSE Credential(Null, Null, "not_configured")

LoadConfig(envApiKey, file) ==
    IF Truthy(envApiKey) /\ ConfigSchemaAccepts(envApiKey)
    THEN Credential(Config(envApiKey), GoogleGenAI(envApiKey), "environment")
    ELSE IF ConfigFileParses(file)
         THEN Credential(Config(file.geminiApiKey), GoogleGenAI(file.geminiApiKey), "config_file")
         ELSE Credential(Null, Null, "not_configured")

\* ------------------------------------------------------------------- state
VARIABLES
    started,        \* run() has finished loadConfig and connected the transport
    env,            \* process.env.GEMINI_API_KEY
    configFile,     \* content of ~/.nano-banana-config.json
    config,         \* this.config
    genAI,          \* this.genAI
    configSource,   \* this.configSource
    lastImagePath,  \* this.lastImagePath
    files,          \* the file system: path -> content, NoFile when absent
    written,        \* number of image files the process has written
    out,            \* what the last tool call returned
    pending         \* the continueEditing call suspended in fs.access, if any

vars == <<started, env, configFile, config, genAI, configSource, lastImagePath, files, written, out, pending>>
credVars == <<config, genAI, configSource>>

\* A continueEditing call between its fs.access call and what follows it:
\* the path it passed to fs.access and whether a file was there.
Pending(pc, imagePath, exists) == [pc |-> pc, path |-> imagePath, exists |-> exists]
NoPending == Pending("idle", NoPath, FALSE)

\* State after `new NanoBananaMCP()`, before run().
InitWith(envs, configFiles) ==
    /\ started = FALSE
    /\ env \in envs
    /\ configFile \in configFiles
    /\ config = Null
    /\ genAI = Null
    /\ configSource = "not_configured"
    /\ lastImagePath = NoPath
    /\ files = [p \in AllPaths |-> IF p \in UserPaths THEN UserFiles[p] ELSE NoFile]
    /\ written = 0
    /\ out = NoResult
    /\ pending = NoPending

\* run(): loadConfig(), then the transport is connected.
Run ==
    /\ ~started
    /\ LET c == LoadConfig(env, configFile)
       IN /\ config' = c.config
          /\ genAI' = c.genAI
          /\ configSource' = c.configSource
    /\ started' = TRUE
    /\ UNCHANGED <<pending, env, configFile, lastImagePath, files, written, out>>

\* ensureConfigured()
EnsureConfigured(cfg, ai) == cfg # Null /\ ai # Null

\* ------------------------------------------------------ validation helpers
\* Mutations: a file of exactly the maximum size is rejected; the extension
\* is compared as written.
ValidateImagePathInclusive(filePath, fsys) ==
    IF ToLowerCase(filePath.ext) \notin Range(ALLOWED_IMAGE_EXTENSIONS)
    THEN McpError("InvalidParams", "Unsupported image format", "")
    ELSE IF fsys[filePath] = NoFile
         THEN McpError("InvalidParams", "Image file not found", "")
         ELSE IF fsys[filePath].size >= MAX_IMAGE_SIZE_BYTES
              THEN McpError("InvalidParams", "Image file too large", "")
              ELSE NoError
ValidateImagePathCaseSensitive(filePath, fsys) ==
    IF filePath.ext \notin Range(ALLOWED_IMAGE_EXTENSIONS)
    THEN McpError("InvalidParams", "Unsupported image format", "")
    ELSE IF fsys[filePath] = NoFile
         THEN McpError("InvalidParams", "Image file not found", "")
         ELSE IF fsys[filePath].size > MAX_IMAGE_SIZE_BYTES
              THEN McpError("InvalidParams", "Image file too large", "")
              ELSE NoError

\* validateImagePath(filePath): NoError, or the McpError it throws
ValidateImagePath(filePath, fsys) ==
    IF ToLowerCase(filePath.ext) \notin Range(ALLOWED_IMAGE_EXTENSIONS)
    THEN McpError("InvalidParams", "Unsupported image format", "")
    ELSE IF fsys[filePath] = NoFile
         THEN McpError("InvalidParams", "Image file not found", "")
         ELSE IF fsys[filePath].size > MAX_IMAGE_SIZE_BYTES
              THEN McpError("InvalidParams", "Image file too large", "")
              ELSE NoError

\* getMimeType(filePath)
GetMimeType(filePath) ==
    LET ext == ToLowerCase(filePath.ext)
    IN CASE ext = ".jpg" -> "image/jpeg"
         [] ext = ".jpeg" -> "image/jpeg"
         [] ext = ".png" -> "image/png"
         [] ext = ".webp" -> "image/webp"
         [] ext = ".gif" -> "image/gif"
         [] OTHER -> "image/jpeg"

\* resolveModel(model): the model it returns, or the McpError it throws
Resolved(model, error) == [model |-> model, error |-> error]
ResolveModel(model) ==
    IF ~Truthy(model)
    THEN Resolved(DEFAULT_MODEL, NoError)
    ELSE IF model \in Range(SUPPORTED_MODELS)
         THEN Resolved(model, NoError)
         ELSE Resolved("", McpError("InvalidParams", "Unsupported model", ""))

\* model arguments a caller passes
ModelArgs == {Undefined, "", DEFAULT_MODEL, PRO_MODEL, "gpt-5"}

\* ----------------------------------------------------- provider responses
\* A candidate's parts are text parts and image parts in any order.  The
\* k-th image of a response to a text-only request is Blob(10 + k, k), of
\* a response to an edit request Blob(20 + k, k): no two images of one
\* response are the same, and none is a caller's file.  Every second
\* image part comes with a text of its own and without a mime type.
PromptText == <<"prompt">>
ResponseText(i) == <<ToString(i)>>
ResponseImage(first, k) ==
    Part(IF k % 2 = 0 THEN ResponseText(k) ELSE <<>>,
         ToBase64(Blob(first + k, k)),
         IF k % 2 = 0 THEN "" ELSE "image/webp")
PartList(first, kinds) ==
    [i \in DOMAIN kinds |->
        IF kinds[i] = "text"
        THEN TextPart(ResponseText(i))
        ELSE ResponseImage(first, Cardinality({j \in 1..i : kinds[j] = "image"}))]
PartLists(first) ==
    UNION { {PartList(first, kinds) : kinds \in [1..n -> {"text", "image"}]} : n \in 0..MaxParts }

\* A candidate may come without content.parts.
Candidate(hasParts, parts) == [hasParts |-> hasParts, parts |-> parts]
\* A response is its list of candidates: none, one, or a second one that
\* holds an image.
Responses(first) ==
    {<<>>, <<Candidate(FALSE, <<>>)>>}
    \cup { <<Candidate(TRUE, ps)>> : ps \in PartLists(first) }
    \cup { <<Candidate(TRUE, <<TextPart(ResponseText(1))>>),
              Candidate(TRUE, <<ResponseImage(first, 1)>>)>> }
GenerateResponses == Responses(10)
EditResponses == Responses(20)

\* response.candidates?.[0]?.content?.parts, the empty list when missing
FirstCandidateParts(response) ==
    IF response # <<>> /\ response[1].hasParts THEN response[1].parts ELSE <<>>

\* the parts with a truthy inlineData.data, in order
ImageBearing(parts) == SelectSeq(parts, LAMBDA p : TruthyData(p.data))

RECURSIVE TextContent(_)
\* textContent: the truthy part texts, concatenated in order
TextContent(parts) ==
    IF parts = <<>> THEN <<>>
    ELSE Head(parts).text \o TextContent(Tail(parts))

\* ------------------------------------------------- shared response builder
\* Mutations of the assignment at line 302: never made, made for the first
\* image only, and state cleared when nothing was saved.
LastImagePathNeverSet(last, saved) == last
LastImagePathFirst(last, saved) ==
    IF saved = <<>> THEN last ELSE saved[1]
LastImagePathCleared(last, saved) ==
    IF saved = <<>> THEN NoPath ELSE saved[Len(saved)]

\* this.lastImagePath after the part loop has saved the files `saved`
\* (line 302: assigned after every successful saveImage)
LastImagePathAfter(last, saved) ==
    IF saved = <<>> THEN last ELSE saved[Len(saved)]

\* I/O outcomes of one buildImageResponse call: every call succeeds, or
\* fs.mkdir rejects, or fs.writeFile rejects for the k-th image part (k >= 1).
IoOk == 0
MkdirFails == 0 - 1
IoOutcomes(response) ==
    {IoOk, MkdirFails} \cup (1..Len(ImageBearing(FirstCandidateParts(response))))

Built(error, last, fsys, count, content, text) ==
    [error |-> error, lastImagePath |-> last, files |-> fsys, written |-> count,
     content |-> content, text |-> text]

\* buildImageResponse(response, prefix, promptText, warnings) run in the
\* state (last, fsys, count) with I/O outcome io.
BuildImageResponse(response, prefix, warnings, io, last, fsys, count) ==
    LET parts == FirstCandidateParts(response)
        images == ImageBearing(parts)
        nSaved == IF io = IoOk THEN Len(images) ELSE IF io = MkdirFails THEN 0 ELSE io - 1
        saved == [i \in 1..nSaved |-> FileName(ImagesDir, prefix, count + i)]
        fsys2 == [p \in DOMAIN fsys |->
                    IF \E i \in 1..nSaved : saved[i] = p
                    THEN FromBase64(images[CHOOSE i \in 1..nSaved : saved[i] = p].data)
                    ELSE fsys[p]]
        content == [i \in 1..nSaved |->
                      ImagePart(images[i].data,
                                IF images[i].mimeType # "" THEN images[i].mimeType ELSE "image/png")]
        text == Text(IF prefix = "generated" THEN "Image generated with nano-banana!"
                                             ELSE "Image edited with nano-banana!",
                     TextContent(parts), warnings, saved,
                     IF saved = <<>> THEN "No image was generated" ELSE "",
                     NoPath, 0)
    IN IF io = MkdirFails
       THEN Built(RawError("mkdir"), last, fsys, count, <<>>, NoText)
       ELSE IF io # IoOk
            THEN Built(RawError("writeFile"), LastImagePathAfter(last, saved), fsys2,
                       count + nSaved, <<>>, NoText)
            ELSE Built(NoError, LastImagePathAfter(last, saved), fsys2,
                       count + nSaved, content, text)

\* A request to genAI.models.generateContent
Request(apiKey, model, parts) == [apiKey |-> apiKey, model |-> model, parts |-> parts]

\* What one tool call does: what it throws, what it sent to the provider,
\* the session state and files it leaves, and the result it returns.
Outcome(error, requests, responses, last, fsys, count, content, text) ==
    [error |-> error, requests |-> requests, responses |-> responses,
     lastImagePath |-> last, files |-> fsys, written |-> count,
     content |-> content, text |-> text]
Throws(error, requests, responses, last, fsys, count) ==
    Outcome(error, requests, responses, last, fsys, count, <<>>, NoText)

\* ------------------------------------------------------- generate_image
\* Mutation: the model is resolved after the provider has been called.
GenerateImageLateResolve(model, providerOk, response, io, cfg, ai, last, fsys, count) ==
    IF ~EnsureConfigured(cfg, ai)
    THEN Throws(NotConfiguredError, <<>>, <<>>, last, fsys, count)
    ELSE LET resolved == ResolveModel(model)
             request == Request(ai.apiKey, model, <<TextPart(PromptText)>>)
             built == BuildImageResponse(response, "generated", <<>>, io, last, fsys, count)
         IN IF ~providerOk
            THEN Throws(McpError("InternalError", "Failed to generate image", "generateContent"),
                        <<request>>, <<>>, last, fsys, count)
            ELSE IF resolved.error # NoError
                 THEN Throws(resolved.error, <<request>>, <<response>>, last, fsys, count)
                 ELSE IF built.error # NoError
                      THEN Throws(McpError("InternalError", "Failed to generate image", built.error.cause),
                                  <<request>>, <<response>>, built.lastImagePath, built.files, built.written)
                      ELSE Outcome(NoError, <<request>>, <<response>>, built.lastImagePath, built.files,
                                   built.written, built.content, built.text)

\* generateImage(request) with arguments {prompt, model}; providerOk tells
\* whether generateContent resolves, response is what it resolves to.
GenerateImageOutcome(model, providerOk, response, io, cfg, ai, last, fsys, count) ==
    IF ~EnsureConfigured(cfg, ai)
    THEN Throws(NotConfiguredError, <<>>, <<>>, last, fsys, count)
    ELSE LET resolved == ResolveModel(model)
             request == Request(ai.apiKey, resolved.model, <<TextPart(PromptText)>>)
             built == BuildImageResponse(response, "generated", <<>>, io, last, fsys, count)
         IN IF resolved.error # NoError
            THEN Throws(resolved.error, <<>>, <<>>, last, fsys, count)
            ELSE IF ~providerOk
                 THEN Throws(McpError("InternalError", "Failed to generate image", "generateContent"),
                             <<request>>, <<>>, last, fsys, count)
                 ELSE IF built.error # NoError
                      THEN Throws(McpError("InternalError", "Failed to generate image", built.error.cause),
                                  <<request>>, <<response>>, built.lastImagePath, built.files, built.written)
                      ELSE Outcome(NoError, <<request>>, <<response>>, built.lastImagePath, built.files,
                                   built.written, built.content, built.text)

\* ------------------------------------------------------------ edit_image
Warning(refPath, reason) == [path |-> refPath, reason |-> reason]
Loaded(parts, warnings) == [parts |-> parts, warnings |-> warnings]

\* Why the i-th reference is skipped ("" when it is loaded): the message of
\* validateImagePath's error, or of fs.readFile's when i is in readFails.
ReferenceFailure(refs, i, readFails, fsys) ==
    LET v == ValidateImagePath(refs[i], fsys)
    IN IF v # NoError THEN v.msg
       ELSE IF i \in readFails THEN "readFile" ELSE ""

RECURSIVE LoadReferencesSilent(_, _, _, _)
\* Mutation: a reference that fails is skipped without a warning.
LoadReferencesSilent(refs, i, readFails, fsys) ==
    IF i > Len(refs) THEN Loaded(<<>>, <<>>)
    ELSE LET rest == LoadReferencesSilent(refs, i + 1, readFails, fsys)
         IN IF ReferenceFailure(refs, i, readFails, fsys) = ""
            THEN Loaded(<<ImagePart(ToBase64(fsys[refs[i]]), GetMimeType(refs[i]))>> \o rest.parts,
                        <<>>)
            ELSE rest

RECURSIVE LoadReferences(_, _, _, _)
\* the loop over referenceImages from index i on: the image parts pushed
\* and the warnings collected, both in input order
LoadReferences(refs, i, readFails, fsys) ==
    IF i > Len(refs) THEN Loaded(<<>>, <<>>)
    ELSE LET rest == LoadReferences(refs, i + 1, readFails, fsys)
             why == ReferenceFailure(refs, i, readFails, fsys)
         IN IF why = ""
            THEN Loaded(<<ImagePart(ToBase64(fsys[refs[i]]), GetMimeType(refs[i]))>> \o rest.parts,
                        rest.warnings)
            ELSE Loaded(rest.parts, <<Warning(refs[i], why)>> \o rest.warnings)

\* imageParts as sent: primary image, loaded references, prompt text
ImageParts(imagePath, loaded, fsys) ==
    <<ImagePart(ToBase64(fsys[imagePath]), GetMimeType(imagePath))>>
        \o loaded.parts \o <<TextPart(PromptText)>>

\* Mutation: a call that succeeds tracks the image it was given.
EditImageTracksSource(imagePath, refs, model, primaryReads, readFails, providerOk, response, io, cfg, ai, last, fsys, count) ==
    IF ~EnsureConfigured(cfg, ai)
    THEN Throws(NotConfiguredError, <<>>, <<>>, last, fsys, count)
    ELSE LET resolved == ResolveModel(model)
             valid == ValidateImagePath(imagePath, fsys)
             loaded == LoadReferences(refs, 1, readFails, fsys)
             request == Request(ai.apiKey, resolved.model, ImageParts(imagePath, loaded, fsys))
             built == BuildImageResponse(response, "edited", loaded.warnings, io, last, fsys, count)
         IN IF resolved.error # NoError
            THEN Throws(resolved.error, <<>>, <<>>, last, fsys, count)
            ELSE IF valid # NoError
            THEN Throws(valid, <<>>, <<>>, last, fsys, count)
            ELSE IF ~primaryReads
            THEN Throws(McpError("InternalError", "Failed to edit image", "readFile"),
                        <<>>, <<>>, last, fsys, count)
            ELSE IF ~providerOk
            THEN Throws(McpError("InternalError", "Failed to edit image", "generateContent"),
                        <<request>>, <<>>, last, fsys, count)
            ELSE IF built.error # NoError
            THEN Throws(McpError("InternalError", "Failed to edit image", built.error.cause),
                        <<request>>, <<response>>, built.lastImagePath, built.files, built.written)
            ELSE Outcome(NoError, <<request>>, <<response>>, imagePath, built.files,
                         built.written, built.content, built.text)

\* editImage(request) with arguments {imagePath, prompt, referenceImages,
\* model}; primaryReads tells whether fs.readFile(imagePath) resolves,
\* readFails holds the indices of the references whose readFile rejects.
EditImageOutcome(imagePath, refs, model, primaryReads, readFails, providerOk, response, io, cfg, ai, last, fsys, count) ==
    IF ~EnsureConfigured(cfg, ai)
    THEN Throws(NotConfiguredError, <<>>, <<>>, last, fsys, count)
    ELSE LET resolved == ResolveModel(model)
             valid == ValidateImagePath(imagePath, fsys)
             loaded == LoadReferences(refs, 1, readFails, fsys)
             request == Request(ai.apiKey, resolved.model, ImageParts(imagePath, loaded, fsys))
             built == BuildImageResponse(response, "edited", loaded.warnings, io, last, fsys, count)
         IN IF resolved.error # NoError
            THEN Throws(resolved.error, <<>>, <<>>, last, fsys, count)
            ELSE IF valid # NoError
            THEN Throws(valid, <<>>, <<>>, last, fsys, count)
            ELSE IF ~primaryReads
            THEN Throws(McpError("InternalError", "Failed to edit image", "readFile"),
                        <<>>, <<>>, last, fsys, count)
            ELSE IF ~providerOk
            THEN Throws(McpError("InternalError", "Failed to edit image", "generateContent"),
                        <<request>>, <<>>, last, fsys, count)
            ELSE IF built.error # NoError
            THEN Throws(McpError("InternalError", "Failed to edit image", built.error.cause),
                        <<request>>, <<response>>, built.lastImagePath, built.files, built.written)
            ELSE Outcome(NoError, <<request>>, <<response>>, built.lastImagePath, built.files,
                         built.written, built.content, built.text)

\* ------------------------------------------------------ continue_editing
\* Mutations: the session state is looked at before the credential; a
\* missing prior image is reported as a vanished one; the existence of the
\* file is not checked before delegating to editImage.
ContinueEditingSessionFirst(refs, model, primaryReads, readFails, providerOk, response, io, cfg, ai, last, fsys, count) ==
    IF last = NoPath
    THEN Throws(NoPreviousImageError, <<>>, <<>>, last, fsys, count)
    ELSE IF ~EnsureConfigured(cfg, ai)
    THEN Throws(NotConfiguredError, <<>>, <<>>, last, fsys, count)
    ELSE IF fsys[last] = NoFile
    THEN Throws(LastImageNotFoundError, <<>>, <<>>, last, fsys, count)
    ELSE EditImageOutcome(last, refs, model, primaryReads, readFails, providerOk, response, io,
                          cfg, ai, last, fsys, count)
ContinueEditingConflated(refs, model, primaryReads, readFails, providerOk, response, io, cfg, ai, last, fsys, count) ==
    IF ~EnsureConfigured(cfg, ai)
    THEN Throws(NotConfiguredError, <<>>, <<>>, last, fsys, count)
    ELSE IF last = NoPath \/ fsys[last] = NoFile
    THEN Throws(LastImageNotFoundError, <<>>, <<>>, last, fsys, count)
    ELSE EditImageOutcome(last, refs, model, primaryReads, readFails, providerOk, response, io,
                          cfg, ai, last, fsys, count)
ContinueEditingUnchecked(refs, model, primaryReads, readFails, providerOk, response, io, cfg, ai, last, fsys, count) ==
    IF ~EnsureConfigured(cfg, ai)
    THEN Throws(NotConfiguredError, <<>>, <<>>, last, fsys, count)
    ELSE IF last = NoPath
    THEN Throws(NoPreviousImageError, <<>>, <<>>, last, fsys, count)
    ELSE EditImageOutcome(last, refs, model, primaryReads, readFails, providerOk, response, io,
                          cfg, ai, last, fsys, count)

\* continueEditing(request) with arguments {prompt, referenceImages, model}
ContinueEditingOutcome(refs, model, primaryReads, readFails, providerOk, response, io, cfg, ai, last, fsys, count) ==
    IF ~EnsureConfigured(cfg, ai)
    THEN Throws(NotConfiguredError, <<>>, <<>>, last, fsys, count)
    ELSE IF last = NoPath
    THEN Throws(NoPreviousImageError, <<>>, <<>>, last, fsys, count)
    ELSE IF fsys[last] = NoFile
    THEN Throws(LastImageNotFoundError, <<>>, <<>>, last, fsys, count)
    ELSE EditImageOutcome(last, refs, model, primaryReads, readFails, providerOk, response, io,
                          cfg, ai, last, fsys, count)

\* --------------------------------------------------- the other four tools
\* Mutation: a vanished file is an error, as it is in continueEditing.
GetLastImageInfoThrows(last, fsys, count) ==
    IF last = NoPath
    THEN Outcome(NoError, <<>>, <<>>, last, fsys, count, <<>>,
                 Text("No previous image found.", <<>>, <<>>, <<>>, "", NoPath, 0))
    ELSE IF fsys[last] # NoFile
    THEN Outcome(NoError, <<>>, <<>>, last, fsys, count, <<>>,
                 Text("Last Image Information:", <<>>, <<>>, <<>>,
                      "Use continue_editing to make further changes.",
                      last, (fsys[last].size + 512) \div 1024))
    ELSE Throws(LastImageNotFoundError, <<>>, <<>>, last, fsys, count)

\* getLastImageInfo(); Math.round(size / 1024) is the size in KB
GetLastImageInfoOutcome(last, fsys, count) ==
    IF last = NoPath
    THEN Outcome(NoError, <<>>, <<>>, last, fsys, count, <<>>,
                 Text("No previous image found.", <<>>, <<>>, <<>>, "", NoPath, 0))
    ELSE IF fsys[last] # NoFile
    THEN Outcome(NoError, <<>>, <<>>, last, fsys, count, <<>>,
                 Text("Last Image Information:", <<>>, <<>>, <<>>,
                      "Use continue_editing to make further changes.",
                      last, (fsys[last].size + 512) \div 1024))
    ELSE Outcome(NoError, <<>>, <<>>, last, fsys, count, <<>>,
                 Text("Last Image Information:", <<>>, <<>>, <<>>, "Status: File not found", last, 0))

\* Mutation: the status names the key in use.
GetConfigurationStatusTextWithKey(cfg, ai, source) ==
    IF cfg # Null /\ ai # Null
    THEN Text("Gemini API token is configured and ready to use", <<cfg.geminiApiKey>>, <<>>, <<>>,
              CASE source = "environment" -> "Source: Environment variable (GEMINI_API_KEY)"
                [] source = "config_file" -> "Source: Local configuration file (.nano-banana-config.json)"
                [] OTHER -> "",
              NoPath, 0)
    ELSE Text("Gemini API token is not configured", <<>>, <<>>, <<>>,
              "Configuration options (in priority order)", NoPath, 0)

\* getConfigurationStatus(): status text and source information
GetConfigurationStatusText(cfg, ai, source) ==
    IF cfg # Null /\ ai # Null
    THEN Text("Gemini API token is configured and ready to use", <<>>, <<>>, <<>>,
              CASE source = "environment" -> "Source: Environment variable (GEMINI_API_KEY)"
                [] source = "config_file" -> "Source: Local configuration file (.nano-banana-config.json)"
                [] OTHER -> "",
              NoPath, 0)
    ELSE Text("Gemini API token is not configured", <<>>, <<>>, <<>>,
              "Configuration options (in priority order)", NoPath, 0)

\* Mutation: the handler lets every error through as it is.
HandlerCatchRethrows(error) == error

\* the catch of the CallToolRequestSchema handler
HandlerCatch(error) ==
    IF error.code = "raw"
    THEN McpError("InternalError", "Tool execution failed", error.cause)
    ELSE error

\* ----------------------------------------------------------------- actions
\* A tool call returns: session state, files and result become the outcome's.
Return(tool, args, o) ==
    /\ out' = Result(tool, args, HandlerCatch(o.error), o.requests, o.responses, o.content, o.text)
    /\ lastImagePath' = o.lastImagePath
    /\ files' = o.files
    /\ written' = o.written

\* Argument and I/O choices that cannot change the outcome are not varied:
\* the provider's answer matters only when the request is sent.
Answers(sent, responses) == IF sent THEN responses ELSE {<<>>}
ImagesIn(response) == Len(ImageBearing(FirstCandidateParts(response)))

GenerateImage(models, responses) ==
    /\ started
    /\ \E model \in models :
       LET sent == EnsureConfigured(config, genAI) /\ ResolveModel(model).error = NoError
       IN \E providerOk \in (IF sent THEN BOOLEAN ELSE {TRUE}) :
          \E response \in Answers(sent /\ providerOk, responses) :
          \E io \in IoOutcomes(response) :
             /\ (sent /\ providerOk) \/ io = IoOk
             /\ written + ImagesIn(response) <= MaxImages
             /\ Return("generate_image", Args(NoPath, <<>>, model),
                       GenerateImageOutcome(model, providerOk, response, io,
                                            config, genAI, lastImagePath, files, written))
    /\ UNCHANGED <<pending, started, env, configFile, config, genAI, configSource>>

\* reference lists a caller passes: a valid image, an oversized one and a
\* missing one, in any order and number
RefPaths == {PhotoPath, StylePath, GonePath}
RefLists == UNION { [1..n -> RefPaths] : n \in 0..MaxRefs }
\* at most one readFile of a reference rejects (of one that validated:
\* the others are not read)
ReadFailSets(refs, fsys) ==
    {{}} \cup { {i} : i \in {j \in DOMAIN refs : ValidateImagePath(refs[j], fsys) = NoError} }

EditImage(paths, refLists, models, responses) ==
    /\ started
    /\ \E imagePath \in paths, model \in models :
       LET loads == /\ EnsureConfigured(config, genAI)
                    /\ ResolveModel(model).error = NoError
                    /\ ValidateImagePath(imagePath, files) = NoError
       IN \E primaryReads \in (IF loads THEN BOOLEAN ELSE {TRUE}) :
          \E refs \in (IF loads /\ primaryReads THEN refLists ELSE {<<>>}) :
          \E readFails \in ReadFailSets(refs, files) :
          \E providerOk \in (IF loads /\ primaryReads THEN BOOLEAN ELSE {TRUE}) :
          \E response \in Answers(loads /\ primaryReads /\ providerOk, responses) :
          \E io \in IoOutcomes(response) :
             /\ (loads /\ primaryReads /\ providerOk) \/ io = IoOk
             /\ written + ImagesIn(response) <= MaxImages
             /\ Return("edit_image", Args(imagePath, refs, model),
                       EditImageOutcome(imagePath, refs, model, primaryReads, readFails,
                                        providerOk, response, io,
                                        config, genAI, lastImagePath, files, written))
    /\ UNCHANGED <<pending, started, env, configFile, config, genAI, configSource>>

ContinueEditing(refLists, models, responses) ==
    /\ started
    /\ \E model \in models :
       LET loads == /\ EnsureConfigured(config, genAI)
                    /\ lastImagePath # NoPath
                    /\ files[lastImagePath] # NoFile
                    /\ ResolveModel(model).error = NoError
                    /\ ValidateImagePath(lastImagePath, files) = NoError
       IN \E primaryReads \in (IF loads THEN BOOLEAN ELSE {TRUE}) :
          \E refs \in (IF loads /\ primaryReads THEN refLists ELSE {<<>>}) :
          \E readFails \in ReadFailSets(refs, files) :
          \E providerOk \in (IF loads /\ primaryReads THEN BOOLEAN ELSE {TRUE}) :
          \E response \in Answers(loads /\ primaryReads /\ providerOk, responses) :
          \E io \in IoOutcomes(response) :
             /\ (loads /\ primaryReads /\ providerOk) \/ io = IoOk
             /\ written + ImagesIn(response) <= MaxImages
             /\ Return("continue_editing", Args(NoPath, refs, model),
                       ContinueEditingOutcome(refs, model, primaryReads, readFails,
                                              providerOk, response, io,
                                              config, genAI, lastImagePath, files, written))
    /\ UNCHANGED <<pending, started, env, configFile, config, genAI, configSource>>

GetLastImageInfo ==
    /\ started
    /\ Return("get_last_image_info", NoArgs, GetLastImageInfoOutcome(lastImagePath, files, written))
    /\ UNCHANGED <<pending, started, env, configFile, config, genAI, configSource>>

\* Mutation: the credential is resolved again (loadConfig) before the status
\* is reported.
GetConfigurationStatusReloads ==
    /\ started
    /\ LET c == LoadConfig(env, configFile)
       IN /\ config' = c.config
          /\ genAI' = c.genAI
          /\ configSource' = c.configSource
          /\ out' = Result("get_configuration_status", NoArgs, NoError, <<>>, <<>>, <<>>,
                           GetConfigurationStatusText(c.config, c.genAI, c.configSource))
    /\ UNCHANGED <<pending, started, env, configFile, lastImagePath, files, written>>

GetConfigurationStatus ==
    /\ started
    /\ out' = Result("get_configuration_status", NoArgs, NoError, <<>>, <<>>, <<>>,
                     GetConfigurationStatusText(config, genAI, configSource))
    /\ UNCHANGED <<pending, started, env, configFile, config, genAI, configSource,
                   lastImagePath, files, written>>

\* the default branch of the handler's switch
UnknownTool ==
    /\ started
    /\ out' = Result("unknown", NoArgs, McpError("MethodNotFound", "Unknown tool", ""),
                     <<>>, <<>>, <<>>, NoText)
    /\ UNCHANGED <<pending, started, env, configFile, config, genAI, configSource,
                   lastImagePath, files, written>>

\* Mutation: a rejected write of the config file leaves the server without
\* a credential.
ConfigureGeminiTokenResets(apiKeys) ==
    /\ started
    /\ \E apiKey \in apiKeys :
       IF ~ConfigSchemaAccepts(apiKey)
       THEN /\ out' = Result("configure_gemini_token", ConfigureArgs(apiKey),
                             McpError("InvalidParams", "Invalid API key", ConfigSchemaIssue(apiKey)),
                             <<>>, <<>>, <<>>, NoText)
            /\ UNCHANGED <<config, genAI, configSource, configFile>>
       ELSE \E saved \in BOOLEAN :
               IF saved
               THEN /\ config' = Config(apiKey)
                    /\ genAI' = GoogleGenAI(apiKey)
                    /\ configSource' = "config_file"
                    /\ configFile' = ConfigFile("object", apiKey, FALSE)
                    /\ out' = Result("configure_gemini_token", ConfigureArgs(apiKey), NoError,
                                     <<>>, <<>>, <<>>,
                                     Text("Gemini API token configured successfully.",
                                          <<>>, <<>>, <<>>, "", NoPath, 0))
               ELSE /\ config' = Null
                    /\ genAI' = Null
                    /\ configSource' = "not_configured"
                    /\ configFile' \in {configFile, ConfigFile("garbage", Undefined, FALSE)}
                    /\ out' = Result("configure_gemini_token", ConfigureArgs(apiKey),
                                     HandlerCatch(RawError("writeFile")), <<>>, <<>>, <<>>, NoText)
    /\ UNCHANGED <<pending, started, env, lastImagePath, files, written>>

\* Mutation: the key is written to the config file only; it becomes the
\* credential in memory at the next start.
ConfigureGeminiTokenFileOnly(apiKeys) ==
    /\ started
    /\ \E apiKey \in apiKeys :
       IF ~ConfigSchemaAccepts(apiKey)
       THEN /\ out' = Result("configure_gemini_token", ConfigureArgs(apiKey),
                             McpError("InvalidParams", "Invalid API key", ConfigSchemaIssue(apiKey)),
                             <<>>, <<>>, <<>>, NoText)
            /\ UNCHANGED <<config, genAI, configSource, configFile>>
       ELSE /\ UNCHANGED <<config, genAI, configSource>>
            /\ \E saved \in BOOLEAN :
               IF saved
               THEN /\ configFile' = ConfigFile("object", apiKey, FALSE)
                    /\ out' = Result("configure_gemini_token", ConfigureArgs(apiKey), NoError,
                                     <<>>, <<>>, <<>>,
                                     Text("Gemini API token configured successfully.",
                                          <<>>, <<>>, <<>>, "", NoPath, 0))
               ELSE /\ configFile' \in {configFile, ConfigFile("garbage", Undefined, FALSE)}
                    /\ out' = Result("configure_gemini_token", ConfigureArgs(apiKey),
                                     HandlerCatch(RawError("writeFile")), <<>>, <<>>, <<>>, NoText)
    /\ UNCHANGED <<pending, started, env, lastImagePath, files, written>>

\* configureGeminiToken(request) with argument {apiKey}; saved tells whether
\* saveConfig's fs.writeFile resolves.  A rejected writeFile leaves the
\* file as it was or, having opened it for writing, cut short.
ConfigureGeminiToken(apiKeys) ==
    /\ started
    /\ \E apiKey \in apiKeys :
       IF ~ConfigSchemaAccepts(apiKey)
       THEN /\ out' = Result("configure_gemini_token", ConfigureArgs(apiKey),
                             McpError("InvalidParams", "Invalid API key", ConfigSchemaIssue(apiKey)),
                             <<>>, <<>>, <<>>, NoText)
            /\ UNCHANGED <<config, genAI, configSource, configFile>>
       ELSE /\ config' = Config(apiKey)
            /\ genAI' = GoogleGenAI(apiKey)
            /\ configSource' = "config_file"
            /\ \E saved \in BOOLEAN :
               IF saved
               THEN /\ configFile' = ConfigFile("object", config'.geminiApiKey, FALSE)
                    /\ out' = Result("configure_gemini_token", ConfigureArgs(apiKey), NoError,
                                     <<>>, <<>>, <<>>,
                                     Text("Gemini API token configured successfully.",
                                          <<>>, <<>>, <<>>, "", NoPath, 0))
               ELSE /\ configFile' \in {configFile, ConfigFile("garbage", Undefined, FALSE)}
                    /\ out' = Result("configure_gemini_token", ConfigureArgs(apiKey),
                                     HandlerCatch(RawError("writeFile")), <<>>, <<>>, <<>>, NoText)
    /\ UNCHANGED <<pending, started, env, lastImagePath, files, written>>

\* A call of a tool that takes arguments with request.params.arguments
\* undefined: destructuring it throws a TypeError, in configureGeminiToken
\* at once, in the other three after the checks that come before it.
NoArguments(tools) ==
    /\ started
    /\ \E tool \in tools :
       LET typeError == RawError("Cannot destructure property")
           error ==
             IF tool = "configure_gemini_token" THEN typeError
             ELSE IF ~EnsureConfigured(config, genAI) THEN NotConfiguredError
             ELSE IF tool # "continue_editing" THEN typeError
             ELSE IF lastImagePath = NoPath THEN NoPreviousImageError
             ELSE IF files[lastImagePath] = NoFile THEN LastImageNotFoundError
             ELSE typeError
       IN out' = Result(tool, NoArgs, HandlerCatch(error), <<>>, <<>>, <<>>, NoText)
    /\ UNCHANGED <<pending, started, env, configFile, config, genAI, configSource,
                   lastImagePath, files, written>>

\* The outside world deletes (or moves away) a file.
Unlink(paths) ==
    /\ \E p \in paths :
       /\ files[p] # NoFile
       /\ files' = [files EXCEPT ![p] = NoFile]
    /\ UNCHANGED <<pending, started, env, configFile, config, genAI, configSource,
                   lastImagePath, written, out>>

\* ---------------------------------------------------------- specifications
\* Session and response handling: the credential comes from the environment
\* or is missing; callers omit the model or pass an unsupported one, and
\* pass no reference images (SpecRefs below varies those).
SessionModels == {Undefined, "gpt-5"}
SessionRefLists == {<<>>}
Init == InitWith({Undefined, "k1"}, {NoConfigFile})
Next ==
    \/ Run
    \/ GenerateImage(SessionModels, GenerateResponses)
    \/ EditImage(UserPaths, SessionRefLists, SessionModels, EditResponses)
    \/ ContinueEditing(SessionRefLists, SessionModels, EditResponses)
    \/ GetLastImageInfo
    \/ GetConfigurationStatus
    \/ UnknownTool
    \/ Unlink({lastImagePath} \ {NoPath})
Spec == Init /\ [][Next]_vars

\* Reference images: edit_image with every reference list, continue_editing
\* with two of them; the model is omitted and the response holds one image.
RefResponses == {<<Candidate(TRUE, <<ResponseImage(20, 1)>>)>>}
NextRefs ==
    \/ Run
    \/ EditImage(UserPaths, RefLists, {Undefined}, RefResponses)
    \/ ContinueEditing({<<>>, <<GonePath, PhotoPath>>}, {Undefined}, RefResponses)
SpecRefs == Init /\ [][NextRefs]_vars

\* Startup: every environment value and config file; configure and status.
ApiKeyArgs == {Undefined, NotAString, ""} \cup Tokens
InitStartup == InitWith(EnvValues, ConfigFiles)
NextStartup ==
    \/ Run
    \/ GetConfigurationStatus
    \/ ConfigureGeminiToken(ApiKeyArgs)
SpecStartup == InitStartup /\ [][NextStartup]_vars

\* The whole tool surface over a process lifetime: every tool, with and
\* without arguments where it takes some, configure_gemini_token between
\* image calls, and the outside world deleting the tracked image.  A
\* response holds a text or one image.
ArgumentTools == {"configure_gemini_token", "generate_image", "edit_image", "continue_editing"}
LifetimeResponses(first) ==
    {<<Candidate(TRUE, <<TextPart(ResponseText(1))>>)>>, <<Candidate(TRUE, <<ResponseImage(first, 1)>>)>>}
LifetimeConfigFiles == {NoConfigFile, ConfigFile("object", "k2", FALSE)}
InitLifetime == InitWith({Undefined, "k1"}, LifetimeConfigFiles)
NextLifetime ==
    \/ Run
    \/ GenerateImage(SessionModels, LifetimeResponses(10))
    \/ EditImage({PhotoPath, GonePath}, SessionRefLists, {Undefined}, LifetimeResponses(20))
    \/ ContinueEditing(SessionRefLists, {Undefined}, LifetimeResponses(20))
    \/ GetLastImageInfo
    \/ GetConfigurationStatus
    \/ UnknownTool
    \/ ConfigureGeminiToken({"", "k2"})
    \/ NoArguments(ArgumentTools)
    \/ Unlink({lastImagePath} \ {NoPath})
SpecLifetime == InitLifetime /\ [][NextLifetime]_vars

\* Model ids: every model argument, one response with an image.
ModelResponses(first) == {<<Candidate(TRUE, <<ResponseImage(first, 1)>>)>>}
NextModels ==
    \/ Run
    \/ GenerateImage(ModelArgs, ModelResponses(10))
    \/ EditImage({PhotoPath}, SessionRefLists, ModelArgs, ModelResponses(20))
    \/ ContinueEditing(SessionRefLists, ModelArgs, ModelResponses(20))
SpecModels == Init /\ [][NextModels]_vars

\* The input validator on its own: one file, of any of these extensions and
\* sizes or missing, and validateImagePath applied to its path.
ProbeExtensions ==
    {".jpg", ".JPG", ".jpeg", ".Jpeg", ".png", ".PNG", ".webp", ".WebP", ".gif", ".GIF",
     ".svg", ".SVG", ".bmp", ".BMP", ".txt", ""}
ProbeSizes ==
    {0, 1, MAX_IMAGE_SIZE_BYTES - 1, MAX_IMAGE_SIZE_BYTES, MAX_IMAGE_SIZE_BYTES + 1,
     MAX_IMAGE_SIZE_BYTES + 2, 2 * MAX_IMAGE_SIZE_BYTES}
ProbePath(ext) == Path("user", "probe", 0, ext)
ProbeFiles == {NoFile} \cup { Blob(1, size) : size \in ProbeSizes }
InitValidator ==
    /\ started = TRUE
    /\ env = Undefined
    /\ configFile = NoConfigFile
    /\ config = Null
    /\ genAI = Null
    /\ configSource = "not_configured"
    /\ lastImagePath = NoPath
    /\ \E ext \in ProbeExtensions, file \in ProbeFiles :
          files = [p \in {ProbePath(ext)} |-> file]
    /\ written = 0
    /\ out = NoResult
    /\ pending = NoPending
ValidateImagePathCall ==
    /\ \E filePath \in DOMAIN files :
          out' = Result("validateImagePath", Args(filePath, <<>>, Undefined),
                        ValidateImagePath(filePath, files), <<>>, <<>>, <<>>, NoText)
    /\ UNCHANGED <<pending, started, env, configFile, config, genAI, configSource,
                   lastImagePath, files, written>>
NextValidator == ValidateImagePathCall
SpecValidator == InitValidator /\ [][NextValidator]_vars

\* Overlapping invocations.  The handler of a request runs until its first
\* await and goes on when the awaited call has settled; the handlers of
\* other requests run in between.  continueEditing is taken in two steps,
\* up to its fs.access call and from there on; the generate_image and
\* edit_image calls that run in between are taken whole.
ContinueEditingAccess ==
    /\ started
    /\ pending.pc = "idle"
    /\ IF EnsureConfigured(config, genAI) /\ lastImagePath # NoPath
       THEN /\ pending' = Pending("access", lastImagePath, files[lastImagePath] # NoFile)
            /\ UNCHANGED <<lastImagePath, files, written, out>>
       ELSE /\ pending' = pending
            /\ Return("continue_editing", NoArgs,
                      ContinueEditingOutcome(<<>>, Undefined, TRUE, {}, TRUE, <<>>, IoOk,
                                             config, genAI, lastImagePath, files, written))
    /\ UNCHANGED <<started, env, configFile, config, genAI, configSource>>

\* fs.access has settled, for the file as it was when it was called or as
\* it is now: the call throws, or reads this.lastImagePath again and hands
\* it to editImage as imagePath.
ContinueEditingResume(models, responses) ==
    /\ pending.pc = "access"
    /\ pending' = NoPending
    /\ \E exists \in {pending.exists, files[pending.path] # NoFile}, model \in models :
       IF ~exists
       THEN Return("continue_editing", Args(NoPath, <<>>, model),
                   Throws(LastImageNotFoundError, <<>>, <<>>, lastImagePath, files, written))
       ELSE LET loads == /\ ResolveModel(model).error = NoError
                         /\ ValidateImagePath(lastImagePath, files) = NoError
            IN \E primaryReads \in (IF loads THEN BOOLEAN ELSE {TRUE}) :
               \E providerOk \in (IF loads /\ primaryReads THEN BOOLEAN ELSE {TRUE}) :
               \E response \in Answers(loads /\ primaryReads /\ providerOk, responses) :
               \E io \in IoOutcomes(response) :
                  /\ (loads /\ primaryReads /\ providerOk) \/ io = IoOk
                  /\ written + ImagesIn(response) <= MaxImages
                  /\ Return("continue_editing", Args(lastImagePath, <<>>, model),
                            EditImageOutcome(lastImagePath, <<>>, model, primaryReads, {},
                                             providerOk, response, io,
                                             config, genAI, lastImagePath, files, written))
    /\ UNCHANGED <<started, env, configFile, config, genAI, configSource>>

NextOverlap ==
    \/ Run
    \/ GenerateImage({Undefined}, ModelResponses(10))
    \/ EditImage({PhotoPath}, SessionRefLists, {Undefined}, ModelResponses(20))
    \/ ContinueEditingAccess
    \/ ContinueEditingResume({Undefined}, ModelResponses(20))
    \/ Unlink({lastImagePath} \ {NoPath})
SpecOverlap == Init /\ [][NextOverlap]_vars

\* ------------------------------------------------------------- properties
GenerationTools == {"generate_image", "edit_image", "continue_editing"}

\* A step is a tool call when the server is connected and no file goes
\* away (a tool never deletes a file, the outside world's step does).
ToolStep ==
    /\ started
    /\ started'
    /\ \A p \in DOMAIN files : files[p] # NoFile => files'[p] # NoFile
Invoked(tool) == ToolStep /\ out'.tool = tool
Generation == ToolStep /\ out'.tool \in GenerationTools

\* the image-bearing parts of the response the call received
ReceivedImages(result) ==
    IF result.responses = <<>> THEN <<>>
    ELSE ImageBearing(FirstCandidateParts(result.responses[1]))

\* the four parts of session continuity (C1)
GenerateTracksImage ==
    (Invoked("generate_image") /\ out'.error = NoError /\ Len(ReceivedImages(out')) = 1)
        => /\ Len(out'.text.saved) = 1
           /\ lastImagePath' = out'.text.saved[1]
           /\ files'[lastImagePath'] = FromBase64(ReceivedImages(out')[1].data)
QueriesKeepTrack ==
    (Invoked("get_last_image_info") \/ Invoked("get_configuration_status"))
        => lastImagePath' = lastImagePath
LastImageInfoReportsTrack ==
    Invoked("get_last_image_info") => out'.text.path = lastImagePath
ContinueSendsTrackedImage ==
    /\ (Invoked("continue_editing") /\ out'.requests # <<>>)
          => /\ lastImagePath # NoPath
             /\ files[lastImagePath] # NoFile
             /\ Len(out'.requests) = 1
             /\ out'.requests[1].parts[1] = ImagePart(ToBase64(files[lastImagePath]), "image/png")
    /\ (/\ Invoked("continue_editing")
        /\ config # Null
        /\ lastImagePath # NoPath
        /\ files[lastImagePath] # NoFile
        /\ files[lastImagePath].size <= MAX_IMAGE_SIZE_BYTES
        /\ out'.args.model \in {Undefined, DEFAULT_MODEL, PRO_MODEL})
          => \/ out'.requests # <<>>
             \/ out'.error = McpError("InternalError", "Failed to edit image", "readFile")
\* C1 - Session continuity.  A generate_image call that succeeds with one
\* image part saved at P leaves lastImagePath = P with the decoded image
\* there; status and last-image calls do not change lastImagePath;
\* get_last_image_info reports the tracked path; and whenever
\* continue_editing sends a request to the provider, its first part is the
\* content of the file at the tracked path, as image/png - which it does
\* send unless the credential, the model id, the file's presence or size,
\* or reading the file stands in the way.
SessionContinuity ==
    [][GenerateTracksImage /\ QueriesKeepTrack /\ LastImageInfoReportsTrack
       /\ ContinueSendsTrackedImage]_vars
\* continue_editing has sent the image a generate_image call had saved
ContinuedFromGenerated ==
    /\ out.tool = "continue_editing"
    /\ out.requests # <<>>
    /\ lastImagePath.prefix = "generated"
    /\ files[lastImagePath] # NoFile
    /\ out.requests[1].parts[1].data = ToBase64(files[lastImagePath])

\* C2 - No session state update on a failed generation: a generate_image,
\* edit_image or continue_editing call that ends in an error leaves
\* lastImagePath as it was.
NoSessionUpdateOnFailure ==
    [][(Generation /\ out'.error # NoError) => lastImagePath' = lastImagePath]_vars

\* C3 - Stale session: continue_editing with a credential and a tracked
\* path whose file is gone fails with the last-image-not-found error,
\* sends nothing to the provider and leaves the session state alone.
StaleSession ==
    [][(/\ Invoked("continue_editing")
        /\ EnsureConfigured(config, genAI)
        /\ lastImagePath # NoPath
        /\ files[lastImagePath] = NoFile)
          => /\ out'.error = McpError("InvalidRequest", "Last image file not found", "")
             /\ out'.requests = <<>>
             /\ lastImagePath' = lastImagePath
             /\ files' = files]_vars
StaleSessionReported ==
    /\ out.tool = "continue_editing"
    /\ out.error.msg = "Last image file not found"
    /\ lastImagePath # NoPath
    /\ files[lastImagePath] = NoFile

\* a call whose response has no image-bearing part in its first candidate,
\* or no candidate; and the result the claim C4 expects of it
TextOnly == Generation /\ out'.responses # <<>> /\ ReceivedImages(out') = <<>>
TextOnlyResult ==
    /\ out'.error = NoError
    /\ out'.content = <<>>
    /\ out'.text.saved = <<>>
    /\ out'.text.note = "No image was generated"
\* C4 as claimed - Text-only response: a call whose response has no
\* image-bearing part always succeeds with no image, the note, and the
\* session state as before.
TextOnlyAlwaysSucceeds ==
    [][TextOnly => (TextOnlyResult /\ lastImagePath' = lastImagePath)]_vars
\* C4 as amended - Text-only response: a call whose response has no
\* image-bearing part leaves session state and files as before, and
\* succeeds with no image and the note unless creating the images
\* directory fails, in which case it fails with an internal error.
TextOnlyResponse ==
    [][TextOnly =>
         /\ lastImagePath' = lastImagePath
         /\ files' = files
         /\ \/ TextOnlyResult
            \/ /\ out'.error.code = "InternalError"
               /\ out'.error.cause = "mkdir"]_vars
\* a text-only response was returned while an image was tracked
TextOnlyAfterImage ==
    /\ out.tool \in GenerationTools
    /\ out.responses # <<>>
    /\ ReceivedImages(out) = <<>>
    /\ out.error = NoError
    /\ out.text.note = "No image was generated"
    /\ lastImagePath # NoPath

\* C5 - Last image wins: a call that succeeds on a response with image
\* parts writes each to a new file of its own, returns the images and the
\* paths in part order, and leaves lastImagePath at the last path.
LastImageWins ==
    [][(Generation /\ out'.error = NoError /\ ReceivedImages(out') # <<>>) =>
         LET images == ReceivedImages(out')
             saved == out'.text.saved
         IN /\ Len(saved) = Len(images)
            /\ Len(out'.content) = Len(images)
            /\ \A i \in DOMAIN images :
                 /\ files[saved[i]] = NoFile
                 /\ files'[saved[i]] = FromBase64(images[i].data)
                 /\ out'.content[i].data = images[i].data
                 /\ \A j \in DOMAIN images : i # j => saved[i] # saved[j]
            /\ lastImagePath' = saved[Len(saved)]]_vars
SeveralImagesSaved ==
    /\ out.tool \in GenerationTools
    /\ out.error = NoError
    /\ Len(out.text.saved) >= 2
    /\ lastImagePath = out.text.saved[Len(out.text.saved)]
    /\ lastImagePath # out.text.saved[1]

\* the messages of resolveModel's and validateImagePath's errors
ValidationMessages ==
    {"Unsupported model", "Unsupported image format", "Image file not found", "Image file too large"}

\* C7 - Fail fast: a generation call rejected by validation (model id,
\* extension, missing or oversized primary file) has sent nothing to the
\* provider, written no file and left the session state alone.
FailFast ==
    [][(Generation /\ out'.error.code = "InvalidParams") =>
         /\ out'.error.msg \in ValidationMessages
         /\ out'.requests = <<>>
         /\ files' = files
         /\ written' = written
         /\ lastImagePath' = lastImagePath]_vars
RejectedWithImageTracked ==
    /\ out.tool = "generate_image"
    /\ out.error.msg = "Unsupported model"
    /\ lastImagePath # NoPath

\* C8 - NotConfigured: without a credential every generation call fails
\* with the not-configured error, sends nothing and changes nothing.
NotConfigured ==
    [][(Generation /\ (config = Null \/ genAI = Null)) =>
         /\ out'.error.code = "InvalidRequest"
         /\ out'.error.msg = "Gemini API token not configured. Use configure_gemini_token first."
         /\ out'.requests = <<>>
         /\ UNCHANGED <<lastImagePath, files, written, config, genAI, configSource, configFile>>]_vars
NotConfiguredReported ==
    /\ out.tool = "continue_editing"
    /\ out.error.msg = "Gemini API token not configured. Use configure_gemini_token first."
    /\ config = Null

\* C9 - NoPriorImage: with a credential, continue_editing fails with the
\* no-previous-image error exactly when lastImagePath is empty, which is
\* exactly when the process has written no image yet; it then sends
\* nothing to the provider.
NoPriorImage ==
    [][/\ (lastImagePath = NoPath) <=> (written = 0)
       /\ (lastImagePath' = NoPath) <=> (written' = 0)
       /\ (Invoked("continue_editing") /\ EnsureConfigured(config, genAI)) =>
            /\ (out'.error.msg = "No previous image found. Please generate or edit an image first.")
                 <=> (lastImagePath = NoPath)
            /\ lastImagePath = NoPath => (out'.error.code = "InvalidRequest" /\ out'.requests = <<>>)]_vars
NoPriorImageReported ==
    /\ out.tool = "continue_editing"
    /\ out.error.msg = "No previous image found. Please generate or edit an image first."
    /\ config # Null
    /\ written = 0

\* the indices of refs that are in keep, in order
Picked(refs, keep) ==
    LET idx == SelectSeq([i \in DOMAIN refs |-> i], LAMBDA i : i \in keep)
    IN [k \in DOMAIN idx |-> idx[k]]

\* C6 - Reference-image degradation.  In edit_image (and in continue_editing,
\* which delegates to it) a request, when sent, holds the primary image,
\* then the references outside some set F of failing ones in input order,
\* then the prompt; F holds every reference that fails validation (the
\* others in F failed to load); a result, when returned, carries one warning
\* per member of F, in input order, with the failure's reason; and with a
\* credential and a valid primary image the request is sent whatever the
\* references are, unless reading the primary image fails.
ReferenceDegradation ==
    [][(ToolStep /\ out'.tool \in {"edit_image", "continue_editing"}) =>
         LET primary == IF out'.tool = "edit_image" THEN out'.args.imagePath ELSE lastImagePath
             refs == out'.args.referenceImages
             invalid == {i \in DOMAIN refs : ValidateImagePath(refs[i], files) # NoError}
         IN /\ out'.requests # <<>> =>
                 \E F \in SUBSET (DOMAIN refs) :
                    LET kept == Picked(refs, (DOMAIN refs) \ F)
                        failed == Picked(refs, F)
                    IN /\ invalid \subseteq F
                       /\ out'.requests[1].parts =
                            <<ImagePart(ToBase64(files[primary]), GetMimeType(primary))>>
                              \o [k \in DOMAIN kept |->
                                    ImagePart(ToBase64(files[refs[kept[k]]]), GetMimeType(refs[kept[k]]))]
                              \o <<TextPart(PromptText)>>
                       /\ out'.error = NoError =>
                            out'.text.warnings =
                              [k \in DOMAIN failed |->
                                 Warning(refs[failed[k]],
                                         IF failed[k] \in invalid
                                         THEN ValidateImagePath(refs[failed[k]], files).msg
                                         ELSE "readFile")]
            /\ (/\ out'.tool = "edit_image"
                /\ config # Null
                /\ ValidateImagePath(primary, files) = NoError)
                 => \/ out'.requests # <<>>
                    \/ out'.error = McpError("InternalError", "Failed to edit image", "readFile")]_vars
\* edit_image succeeded with a missing and an oversized reference: two
\* warnings, and a request of the primary image and the prompt only
TwoReferencesSkipped ==
    /\ out.tool = "edit_image"
    /\ out.error = NoError
    /\ out.args.referenceImages = <<GonePath, StylePath>>
    /\ Len(out.text.warnings) = 2
    /\ Len(out.requests[1].parts) = 2

\* the two credential sources as the claim C10 names them
EnvPresent == env # Undefined /\ env # ""
ConfigFileValid == configFile.kind = "object" /\ configFile.geminiApiKey \in Tokens

\* C10 - Precedence at startup: a non-empty environment value becomes the
\* credential with source "environment" whatever the config file holds; the
\* config file's key is used only without one, when the file is an object
\* with a non-empty string key; otherwise the server is not configured.
Precedence ==
    [][(~started /\ started') =>
         /\ EnvPresent =>
              /\ config' = Config(env)
              /\ genAI' = GoogleGenAI(env)
              /\ configSource' = "environment"
         /\ (~EnvPresent /\ ConfigFileValid) =>
              /\ config' = Config(configFile.geminiApiKey)
              /\ genAI' = GoogleGenAI(configFile.geminiApiKey)
              /\ configSource' = "config_file"
         /\ (~EnvPresent /\ ~ConfigFileValid) =>
              /\ config' = Null
              /\ genAI' = Null
         /\ (configSource' = "not_configured") <=> (~EnvPresent /\ ~ConfigFileValid)]_vars
\* both sources hold a key, not the same, and the environment's is active
EnvironmentWins ==
    /\ started
    /\ out = NoResult
    /\ EnvPresent
    /\ ConfigFileValid
    /\ configFile.geminiApiKey # env
    /\ config = Config(env)
    /\ configSource = "environment"

\* C11 as claimed - Credential immutability: once the server has started,
\* no step changes the active credential or its source label.
CredentialImmutable ==
    [][started => (config' = config /\ genAI' = genAI /\ configSource' = configSource)]_vars
\* C11 as amended - Credential stability: once the server has started, the
\* active credential and its source label change only in a
\* configure_gemini_token call with a non-empty string key, which makes
\* that key the credential with source "config_file"; no other tool call
\* changes them, and they are not resolved again from the environment or
\* the config file.
CredentialStability ==
    [][(started /\ credVars' # credVars) =>
         /\ out'.tool = "configure_gemini_token"
         /\ out'.args.apiKey \in Tokens
         /\ config' = Config(out'.args.apiKey)
         /\ genAI' = GoogleGenAI(out'.args.apiKey)
         /\ configSource' = "config_file"
         /\ UNCHANGED <<started, env, lastImagePath, files, written>>]_vars
\* a server started on the environment's key runs on a configured one,
\* and a later tool call has left it in place
CredentialReplaced ==
    /\ started
    /\ env = "k1"
    /\ config = Config("k2")
    /\ configSource = "config_file"
    /\ out.tool = "get_last_image_info"

\* C12 - Configure takes effect immediately: a configure_gemini_token call
\* that succeeds was given a non-empty string key, leaves that key as the
\* credential in memory with source "config_file" and as the only content
\* of the config file, whatever the credential was before; the status
\* reported right after is "configured", from the local configuration file.
ConfigureTakesEffect ==
    [][/\ (Invoked("configure_gemini_token") /\ out'.error = NoError) =>
            LET token == out'.args.apiKey
            IN /\ token \in Tokens
               /\ config' = Config(token)
               /\ genAI' = GoogleGenAI(token)
               /\ configSource' = "config_file"
               /\ configFile' = ConfigFile("object", token, FALSE)
       /\ (/\ Invoked("get_configuration_status")
           /\ out.tool = "configure_gemini_token"
           /\ out.error = NoError) =>
            /\ out'.error = NoError
            /\ out'.text.headline = "Gemini API token is configured and ready to use"
            /\ out'.text.note = "Source: Local configuration file (.nano-banana-config.json)"]_vars
\* the status after a key was configured in a server started on another
\* key from the environment
ConfiguredOverEnvironment ==
    /\ out.tool = "get_configuration_status"
    /\ env = "k1"
    /\ config = Config("k2")
    /\ configFile = ConfigFile("object", "k2", FALSE)
    /\ out.text.note = "Source: Local configuration file (.nano-banana-config.json)"

\* C13 - Failed configure changes nothing: a configure_gemini_token call
\* that ends in an error leaves the credential in memory, its source label
\* and the config file as they were.
FailedConfigureChangesNothing ==
    [][(Invoked("configure_gemini_token") /\ out'.error # NoError) =>
         UNCHANGED <<config, genAI, configSource, configFile>>]_vars

\* what the claim C14 says of a call given the model argument `model`
ModelResolved(model) ==
    /\ (model \in {Undefined, DEFAULT_MODEL} /\ out'.requests # <<>>) =>
          out'.requests[1].model = DEFAULT_MODEL
    /\ (model = PRO_MODEL /\ out'.requests # <<>>) =>
          out'.requests[1].model = PRO_MODEL
    /\ model \notin {Undefined, DEFAULT_MODEL, PRO_MODEL} =>
          /\ out'.requests = <<>>
          /\ out'.error # NoError
          /\ (EnsureConfigured(config, genAI) /\ out'.tool # "continue_editing") =>
               out'.error = McpError("InvalidParams", "Unsupported model", "")
\* C14 - Model resolution: a call without a model id sends the default
\* model in its request, as a call given the default id does; the pro id
\* sends the pro model; any other string given as model id is rejected
\* with InvalidParams and nothing is sent to the provider.
ModelResolution ==
    [][Generation => ModelResolved(out'.args.model)]_vars

\* the extensions of the allow-list in the letter cases a caller writes
AllowedAsWritten ==
    {".jpg", ".JPG", ".jpeg", ".Jpeg", ".png", ".PNG", ".webp", ".WebP", ".gif", ".GIF"}
Validated == out'.tool = "validateImagePath"

\* C15 - Size boundary: the validator accepts an existing file with an
\* allowed extension when it holds at most 20 * 1024 * 1024 bytes and
\* rejects it with InvalidParams when it holds one byte more, or more.
SizeBoundary ==
    [][Validated =>
         LET filePath == out'.args.imagePath
         IN (filePath.ext \in AllowedAsWritten /\ files[filePath] # NoFile) =>
              /\ files[filePath].size <= 20971520 => out'.error = NoError
              /\ files[filePath].size >= 20971521 => out'.error.code = "InvalidParams"]_vars
\* a file of exactly the maximum size was accepted
MaximumSizeAccepted ==
    /\ out.tool = "validateImagePath"
    /\ out.error = NoError
    /\ files[out.args.imagePath].size = 20971520

\* C16 - Extension allow-list: the validator accepts a path with one of the
\* extensions jpg, jpeg, png, webp, gif, in any letter case, when the file
\* exists and is within the size limit, and rejects with InvalidParams a
\* path with any other extension, whether the file exists or not and
\* whatever its size.
ExtensionAllowList ==
    [][Validated =>
         LET filePath == out'.args.imagePath
         IN /\ (/\ filePath.ext \in AllowedAsWritten
                /\ files[filePath] # NoFile
                /\ files[filePath].size <= MAX_IMAGE_SIZE_BYTES) => out'.error = NoError
            /\ filePath.ext \notin AllowedAsWritten => out'.error.code = "InvalidParams"]_vars
\* a path with a mixed-case extension of the list was accepted
MixedCaseAccepted ==
    /\ out.tool = "validateImagePath"
    /\ out.error = NoError
    /\ out.args.imagePath.ext = ".WebP"

\* the status report for a server with or without an active credential,
\* and with the given source label
StatusReport(active, source) ==
    IF active
    THEN Text("Gemini API token is configured and ready to use", <<>>, <<>>, <<>>,
              IF source = "environment"
              THEN "Source: Environment variable (GEMINI_API_KEY)"
              ELSE "Source: Local configuration file (.nano-banana-config.json)",
              NoPath, 0)
    ELSE Text("Gemini API token is not configured", <<>>, <<>>, <<>>,
              "Configuration options (in priority order)", NoPath, 0)
\* this.config and this.genAI with the key replaced by token
ConfigWith(token) == IF config = Null THEN Null ELSE Config(token)
GenAIWith(token) == IF genAI = Null THEN Null ELSE GoogleGenAI(token)

\* C17 - Status does not leak the token: the result of
\* get_configuration_status is determined by whether a credential is
\* active and by its source label, and is the result the call would give
\* with any other key in the credential's place.
StatusHidesToken ==
    [][Invoked("get_configuration_status") =>
         /\ out'.error = NoError
         /\ out'.content = <<>>
         /\ out'.text = StatusReport(config # Null /\ genAI # Null, configSource)
         /\ \A token \in Tokens :
              out'.text = GetConfigurationStatusText(ConfigWith(token), GenAIWith(token),
                                                    configSource)]_vars
\* the status of a server that runs on the second key, from the environment
StatusOfSecondKey ==
    /\ out.tool = "get_configuration_status"
    /\ config = Config("k2")
    /\ configSource = "environment"
    /\ out.text.note = "Source: Environment variable (GEMINI_API_KEY)"

\* C18 - Last-image query never fails: get_last_image_info returns a text
\* result and no error in every state, changes neither lastImagePath nor
\* the credential nor any file, and reports a tracked file that is gone as
\* "File not found" together with the tracked path.
LastImageQueryNeverFails ==
    [][Invoked("get_last_image_info") =>
         /\ out'.error = NoError
         /\ out'.text # NoText
         /\ UNCHANGED <<lastImagePath, config, genAI, configSource, configFile, files, written>>
         /\ lastImagePath = NoPath => out'.text.headline = "No previous image found."
         /\ lastImagePath # NoPath =>
              /\ out'.text.path = lastImagePath
              /\ (out'.text.note = "Status: File not found") <=> (files[lastImagePath] = NoFile)]_vars
\* the query has reported a tracked file that is gone
VanishedFileReported ==
    /\ out.tool = "get_last_image_info"
    /\ out.error = NoError
    /\ out.text.note = "Status: File not found"
    /\ out.text.path = lastImagePath
    /\ files[lastImagePath] = NoFile

\* the classes of errors a tool call ends in
Classified(error) ==
    \/ error = McpError("InvalidRequest", "Gemini API token not configured. Use configure_gemini_token first.", "")
    \/ /\ error.code = "InvalidParams"
       /\ error.msg \in ValidationMessages \cup {"Invalid API key"}
    \/ /\ error.code = "InvalidRequest"
       /\ error.msg \in {"No previous image found. Please generate or edit an image first.",
                         "Last image file not found"}
    \/ /\ error.code = "InternalError"
       /\ error.msg \in {"Failed to generate image", "Failed to edit image"}
       /\ error.cause # ""
    \/ /\ error.code = "InternalError"
       /\ error.msg = "Tool execution failed"
       /\ error.cause # ""
    \/ error = McpError("MethodNotFound", "Unknown tool", "")

\* C19 - Closed error taxonomy: the error a tool call ends in is an McpError
\* of one of the classes not configured, invalid input, no or stale prior
\* image, generation failed, internal error, unknown tool; a failure that
\* is not an McpError leaves as an InternalError that carries its message.
ClosedTaxonomy ==
    out.error # NoError => Classified(out.error)
\* a rejected write of the config file has left as an InternalError
WrappedFailure ==
    /\ out.tool = "configure_gemini_token"
    /\ out.error = McpError("InternalError", "Tool execution failed", "writeFile")

\* the errors continue_editing ends in without a credential, without a
\* prior image, and when the provider fails
WithoutCredential ==
    ContinueEditingOutcome(<<>>, Undefined, TRUE, {}, TRUE, <<>>, IoOk,
                           Null, Null, lastImagePath, files, written).error
WithoutPriorImage ==
    ContinueEditingOutcome(<<>>, Undefined, TRUE, {}, TRUE, <<>>, IoOk,
                           config, genAI, NoPath, files, written).error
ProviderFailure ==
    EditImageOutcome(PhotoPath, <<>>, Undefined, TRUE, {}, FALSE, <<>>, IoOk,
                     config, genAI, lastImagePath, files, written).error
Stale ==
    /\ Invoked("continue_editing")
    /\ out'.requests = <<>>
    /\ EnsureConfigured(config, genAI)
    /\ lastImagePath # NoPath
    /\ files[lastImagePath] = NoFile
    /\ out'.args.referenceImages = <<>>

\* C20 as claimed - Distinct stale-image error: the code of the error
\* continue_editing ends in when the tracked file is gone differs from the
\* code of the not-configured error, of the no-prior-image error and of
\* the provider failure.
StaleErrorDistinctByCode ==
    [][Stale => out'.error.code \notin {WithoutCredential.code, WithoutPriorImage.code,
                                        ProviderFailure.code}]_vars
\* C20 as amended - Distinct stale-image error: the error continue_editing
\* ends in when the tracked file is gone differs from the not-configured
\* and the no-prior-image error by its message, with the InvalidRequest
\* code they all carry, and from the provider failure by its code too.
StaleErrorDistinct ==
    [][Stale =>
         /\ out'.error # NoError
         /\ out'.error.msg \notin {WithoutCredential.msg, WithoutPriorImage.msg, ProviderFailure.msg}
         /\ out'.error.code = "InvalidRequest"
         /\ WithoutCredential.code = "InvalidRequest"
         /\ WithoutPriorImage.code = "InvalidRequest"
         /\ ProviderFailure.code = "InternalError"]_vars
\* the stale-image error was returned by a server that has written an image
StaleErrorReturned ==
    /\ out.tool = "continue_editing"
    /\ out.error.code = "InvalidRequest"
    /\ out.error.msg = "Last image file not found"
    /\ written > 0
    /\ EnsureConfigured(config, genAI)

\* C21 - Closed config schema: at startup the config file becomes the
\* credential only when it is an object with a non-empty string key and no
\* other field; with any other field and no key in the environment the
\* server stays unconfigured; and the file a configure_gemini_token call
\* has written holds the key and no other field.
ClosedConfigSchema ==
    [][/\ (~started /\ started' /\ configSource' = "config_file") =>
            /\ configFile.kind = "object"
            /\ configFile.geminiApiKey \in Tokens
            /\ ~configFile.extra
       /\ (~started /\ started' /\ ~EnvPresent /\ configFile.extra) =>
            /\ config' = Null
            /\ genAI' = Null
            /\ configSource' = "not_configured"
       /\ (Invoked("configure_gemini_token") /\ out'.error = NoError) =>
            configFile' = ConfigFile("object", out'.args.apiKey, FALSE)]_vars

\* C22 - Session-state frame: lastImagePath is empty at process start and
\* changes only in a generate_image, edit_image or continue_editing call
\* that succeeds and returns at least one image.
SessionStateFrame ==
    /\ lastImagePath = NoPath
    /\ [][lastImagePath' # lastImagePath =>
             /\ Generation
             /\ out'.error = NoError
             /\ Len(out'.content) >= 1]_vars

\* the tracked path is empty or the path of an image file this process
\* wrote: in the images directory, named by saveImage, not a caller's path
Provenance ==
    lastImagePath # NoPath =>
        /\ lastImagePath.dir = ImagesDir
        /\ lastImagePath.prefix \in {"generated", "edited"}
        /\ lastImagePath.ext = ".png"
        /\ lastImagePath.id \in 1..written
        /\ lastImagePath \notin UserPaths
        /\ ToLowerCase(lastImagePath.ext) \in {".jpg", ".jpeg", ".png", ".webp", ".gif"}
\* C23 - lastImagePath provenance: in every state lastImagePath is empty or
\* the path of a file this process wrote through buildImageResponse (in
\* the images directory, ".png", prefix "generated" or "edited"), never a
\* caller's path and always with an allowed extension; an edit_image call
\* on a caller's file that succeeds with an image leaves the new "edited"
\* file tracked, not the caller's; and continue_editing never ends in the
\* validator's extension error.
ArtifactProvenance ==
    /\ []Provenance
    /\ [][/\ (Invoked("edit_image") /\ out'.error = NoError /\ out'.content # <<>>) =>
               /\ lastImagePath' # out'.args.imagePath
               /\ lastImagePath'.prefix = "edited"
               /\ files[lastImagePath'] = NoFile
               /\ files'[lastImagePath'] # NoFile
          /\ Invoked("continue_editing") => out'.error.msg # "Unsupported image format"]_vars
\* edit_image on the caller's photo has succeeded and its result is tracked
EditedArtifactTracked ==
    /\ out.tool = "edit_image"
    /\ out.error = NoError
    /\ out.args.imagePath = PhotoPath
    /\ lastImagePath.prefix = "edited"
    /\ files[lastImagePath] # NoFile

\* C24 - Credential never deactivates: a tool call made with a credential
\* active leaves a credential active; a generation call made with a
\* credential active does not end in the not-configured error; and in
\* every state the source label is "not_configured" exactly when no
\* credential is active.
CredentialStaysActive ==
    /\ []((configSource = "not_configured") <=> ~EnsureConfigured(config, genAI))
    /\ [][/\ EnsureConfigured(config, genAI) => EnsureConfigured(config', genAI')
          /\ (Generation /\ EnsureConfigured(config, genAI)) =>
               out'.error.msg # "Gemini API token not configured. Use configure_gemini_token first."]_vars
\* a server started without a credential has sent a request with a
\* configured key after a configure_gemini_token call failed to write the
\* file of a later key
ActiveAfterFailedConfigure ==
    /\ env = Undefined
    /\ configFile = ConfigFile("garbage", Undefined, FALSE)
    /\ config = Config("k2")
    /\ configSource = "config_file"
    /\ out.tool \in GenerationTools
    /\ out.requests # <<>>

\* C25 - continue_editing under overlapping invocations: the path a
\* continue_editing call hands to editImage as the primary image is the
\* path whose existence it has checked with fs.access, whatever calls run
\* while it waits for that check.
EditsTheCheckedPath ==
    [][(pending.pc = "access" /\ pending'.pc = "idle" /\ out'.args.imagePath # NoPath) =>
         out'.args.imagePath = pending.path]_vars

====
